---- MODULE Spec2Model ----
(***************************************************************************)
(* The request-scoped resolution context of jonson (context.go): the       *)
(* typed value store, the recursion guard built on reserved slots,         *)
(* invalidation, and the reverse-order finalization pass with its error    *)
(* remodeling.                                                             *)
(*                                                                         *)
(* One context is modelled together with the call stack of the code that   *)
(* runs on it: Require calls the Provider synchronously, the Provider may  *)
(* call back into the context, and Finalize calls the finalizers of the    *)
(* stored values, which may call back as well.  A panic unwinds the whole  *)
(* stack to the code that made the outermost call (context.go recovers     *)
(* nothing); the context is left as the panic found it and may be used     *)
(* again.                                                                  *)
(*                                                                         *)
(* StoreValue, Invalidate and Require are called by the request's code, by *)
(* a Provider in flight and by a finalizer in flight.  Finalize is called   *)
(* by the code that ends the request, with no Provider in flight, and      *)
(* again by finalizers.  Every StoreValue stores, and every Provider       *)
(* returns, a new instance; slots and values carry the number of their     *)
(* allocation as identity, which stands for the pointers of the code.      *)
(* Sequences are 1-based: slot i of the model is c.values[i-1].            *)
(*                                                                         *)
(* Fork makes a family of contexts over one root cancellation scope.  The  *)
(* variables values and finalized are the fields of the context the calls  *)
(* are made on (self); the other contexts of the family keep theirs in     *)
(* family.  The request's code turns from one context to another between   *)
(* its calls (Enter); Providers and finalizers work on the context they    *)
(* are passed.                                                             *)
(***************************************************************************)
EXTENDS Integers, Sequences, FiniteSets

\* Number of slot / value instances one behaviour may allocate.
MaxIds == 4
\* Depth of nested Provider invocations.
MaxDepth == 2
\* Number of types passed to one Invalidate.
MaxInvalidate == 2

\* Type identities: the context type, a pointer to a struct, an interface,
\* and a type of another shape (a string type such as README's ServiceName).
TypeContext == "Ctx"
Types == {TypeContext, "A", "B", "S"}

Kind(t) == IF t = "B" THEN "Interface" ELSE IF t = "S" THEN "String" ELSE "Ptr"
ElemKind(t) == IF Kind(t) = "Ptr" THEN "Struct" ELSE "None"

\* context.go:100, the negation of the rejecting condition
ValidShape(t) ==
    ~((Kind(t) # "Ptr" \/ ElemKind(t) # "Struct") /\ Kind(t) # "Interface")

\* context.go:23-25, 137: whether the values of a type implement Finalizeable.
\* The context does not: its Finalize takes an error, not a []error.
Finalizeable(t) == t # TypeContext

\* Values.  A value is an instance (id) of the type it is held under, which
\* does or does not implement Finalizeable; NoVal is the nil interface value
\* of a reserved slot.
NoVal == [id |-> 0, fin |-> FALSE]
Val(n, t) == [id |-> n, fin |-> Finalizeable(t)]

\* Errors.  All errors are records of one shape so that they can be compared;
\* "of" tells the failures of different finalizers apart.
MkErr(k, n) == [kind |-> k, name |-> n, of |-> 0, debug |-> <<>>, details |-> <<>>]
NoErr == MkErr("nil", "")
\* The error of the call, as passed to Finalize: a protocol error (*Error).
CallErr == MkErr("protocol", "call failed")
\* The failure returned by the finalizer of value n: a plain Go error.
FinErr(n) == [MkErr("plain", "finalize failed") EXCEPT !.of = n]
ErrStored == MkErr("plain", "is already stored")
ErrFinalized == MkErr("plain", "context is already finalized")
ErrShape == MkErr("plain", "inst must either be a ptr or an interface")
ErrIndex == MkErr("runtime", "index out of range")
ErrUnauthenticated == MkErr("protocol", "ErrUnauthenticated")
\* A failure of a Provider that is not a protocol error
ErrProvide == MkErr("plain", "provide failed")
\* The failures a Provider panics with
Failures == {ErrUnauthenticated, ErrProvide}
ErrRecursion(chain) ==
    [MkErr("plain", "recursion loop") EXCEPT !.details = chain]

VARIABLES
    values,       \* c.values: the slots, in acquisition order
    finalized,    \* c.finalized
    stack,        \* frames of the calls in flight, innermost first
    nextId,       \* the next fresh slot / value instance
    track,        \* which of the histories below a behaviour records
    provCalls,    \* history: Provider invocations per type since its last Invalidate
    finLog,       \* history: ids of the values whose finalizer was invoked, in order
    snap,         \* history: the Finalizeable values in c.values when the first Finalize started
    acquired,     \* history: the same values in the order their slots became valid
    dropped,      \* history: the Finalizeable values invalidated before Finalize started
    returned,     \* history: the first Finalize has returned
    last,         \* history: the last call or return and its outcome
    self,         \* the context the calls are made on: values, finalized are its fields
    family,       \* the contexts made by NewContext and Fork, by the id of the context
    scope         \* the root cancellation scope: the parent passed to NewContext

vars == <<values, finalized, stack, nextId, track, provCalls, finLog, snap, acquired, dropped,
          returned,
          last, self, family, scope>>

\* The variables of the family of contexts
chain == <<self, family, scope>>

\* The histories are recorded by two observers: one of the calls on the store
\* (StoreValue, Invalidate, Require and the Provider), one of the teardown
\* (Finalize and the finalizers).
TrackCalls == "calls"
TrackTeardown == "teardown"
\* A third observer follows the family of contexts made by Fork and the root
\* cancellation scope.
TrackFork == "fork"
\* A fourth follows the order in which values are acquired and released: it
\* records acquired, dropped, snap and finLog.
TrackOrder == "order"
\* The observers that record which finalizers are invoked
TracksFinalizers == track \in {TrackTeardown, TrackOrder}

Slot(n, t, v, ok) == [id |-> n, rt |-> t, val |-> v, valid |-> ok]

\* An entry of the history last: the operation, whether it was called at this
\* step or resumed at the return of the callback it was waiting for, its
\* arguments (a type, types, an error), its outcome, the value it returned,
\* the error it returned or panicked with, and for a Finalize that returned
\* the errors it had collected.  Record adds who had called the operation:
\* the request's code, a Provider ("Require") or a finalizer ("Finalize"); a
\* Finalize resumed by a finalizer adds what the finalizer returned.
Last(o, ev, t, ts, ein, r, v, e, errors) ==
    [op |-> o, ev |-> ev, rt |-> t, rts |-> ts, ein |-> ein,
     res |-> r, val |-> v, err |-> e, errors |-> errors, from |-> "-", ret |-> NoErr]

Call(o, t, ts, ein, r, v, e) == Last(o, "call", t, ts, ein, r, v, e, <<>>)
Resume(o, t, ein, r, v, e, errors) == Last(o, "return", t, {}, ein, r, v, e, errors)
Quiet == Last("-", "-", "-", {}, NoErr, "-", NoVal, NoErr, <<>>)

----------------------------------------------------------------------------
(* Helpers on the slot list *)

\* Mutant of Lookup: the scan starts one slot too late.
Lookup_SkipsFirst(vals, t) ==
    IF \E i \in 2..Len(vals) : vals[i].rt = t
    THEN CHOOSE i \in 2..Len(vals) : vals[i].rt = t
    ELSE 0

\* context.go:104-105, the scan of Require: the (1-based) index of the slot of
\* type t, 0 when there is none
Lookup(vals, t) ==
    IF \E i \in 1..Len(vals) : vals[i].rt = t
    THEN CHOOSE i \in 1..Len(vals) :
            vals[i].rt = t /\ \A j \in 1..(i - 1) : vals[j].rt # t
    ELSE 0

\* Mutant of IsStored: only committed (valid) slots count as duplicates.
IsStored_ValidOnly(vals, t) ==
    \E i \in 1..Len(vals) : vals[i].rt = t /\ vals[i].valid

\* context.go:48-52, the duplicate scan of StoreValue
IsStored(vals, t) == \E i \in 1..Len(vals) : vals[i].rt = t

\* context.go:54-58 / 113-116, append of a slot
Appended(vals, item) == Append(vals, item)

\* Mutant of Invalidated: the last slot is never looked at and always kept.
Invalidated_KeepsLast(vals, ts) ==
    LET Keep(v) == v.rt \notin ts
    IN IF vals = <<>> THEN vals
       ELSE Append(SelectSeq(SubSeq(vals, 1, Len(vals) - 1), Keep), vals[Len(vals)])

\* Mutant of Invalidated: only slots that are valid are removed.
Invalidated_ValidOnly(vals, ts) ==
    LET Keep(v) == v.rt \notin ts \/ ~v.valid IN SelectSeq(vals, Keep)

\* Mutant of Invalidated: the filter is inverted, the named types are kept.
Invalidated_Inverted(vals, ts) ==
    LET Keep(v) == v.rt \in ts IN SelectSeq(vals, Keep)

\* context.go:67-80, the slots Invalidate keeps
Invalidated(vals, ts) ==
    LET Keep(v) == v.rt \notin ts IN SelectSeq(vals, Keep)

\* context.go:119-120: v.val = ...; v.valid = true, through the pointer v.
\* The item may no longer be in c.values.
Provided(vals, n, v) ==
    [i \in 1..Len(vals) |->
        IF vals[i].id = n THEN [vals[i] EXCEPT !.val = v, !.valid = TRUE]
        ELSE vals[i]]

\* context.go:82-93, the chain listed in the recursion diagnostic
RECURSIVE Chain(_, _)
Chain(vals, i) ==
    IF i > Len(vals) \/ ~vals[i].valid THEN <<>>
    ELSE <<vals[i].rt>> \o Chain(vals, i + 1)

debugRecursionLoop(vals) == ErrRecursion(Chain(vals, 1))

\* context.go:136-142, the scan of the finalization loop from (1-based) index i
\* downwards over the current c.values: the index of the next value that is
\* Finalizeable, 0 when the loop is over, -1 when c.values[i] is out of range.
RECURSIVE NextFin(_, _)
NextFin(vals, i) ==
    IF i < 1 THEN 0
    ELSE IF i > Len(vals) THEN -1
    ELSE IF vals[i].val.fin THEN i
    ELSE NextFin(vals, i - 1)

\* The ids of the Finalizeable values held in the slots, in slot order
FinalizeableIds(vals) ==
    LET Fin(v) == v.val.fin
        fs == SelectSeq(vals, Fin)
    IN [i \in 1..Len(fs) |-> fs[i].val.id]

\* The history acquired after the value n of type t became valid in vals, and
\* after vals became the store (Invalidate); it is kept until Finalize starts.
Acquire(acq, vals, n, t) ==
    IF Finalizeable(t) /\ (\E i \in 1..Len(vals) : vals[i].val.id = n)
    THEN Append(acq, n) ELSE acq

Released(acq, vals) ==
    LET Held(n) == \E i \in 1..Len(vals) : vals[i].val.id = n
    IN SelectSeq(acq, Held)

\* The Finalizeable values held in vals under a type named to Invalidate
Dropped(vals, ts) ==
    {vals[i].val.id : i \in {j \in 1..Len(vals) : vals[j].rt \in ts /\ vals[j].val.fin}}

\* The error encoder: the text is wrapped, never passed through as it is.
Encode(text) == <<"enc", text>>

\* ErrInternal.CloneWithData(&ErrorData{Debug: d, Details: ds})
ErrInternal(d, ds) ==
    [MkErr("internal", "ErrInternal") EXCEPT !.debug = d, !.details = ds]

IsProtocolError(e) == e.kind \in {"protocol", "internal"}

\* context.go:154-163, the normalized sub errors (errs)
SubErrors(errors) ==
    [i \in 1..Len(errors) |->
        IF IsProtocolError(errors[i]) THEN errors[i]
        ELSE ErrInternal(Encode(errors[i].name), <<>>)]

\* Mutant of Remodel: a single collected error is returned as it is, whether
\* or not it is the error of the call.
Remodel_AnySingle(errors, err) ==
    IF Len(errors) = 0 THEN NoErr
    ELSE IF Len(errors) = 1 THEN errors[1]
    ELSE ErrInternal(Encode("finalization failed"), <<>>)

\* Mutant of FinalizedResult: a repeated Finalize returns nil.
FinalizedResult_Nil(err) == NoErr

\* context.go:125-127, what Finalize returns on a context already finalized
FinalizedResult(err) == err

\* Mutant of IsFinalized: the flag is never seen as set.
IsFinalized_Never(fin) == FALSE

\* context.go:97, the check Require makes first
IsFinalized(fin) == fin

\* context.go:145-169, the value Finalize returns for the collected errors
Remodel(errors, err) ==
    IF Len(errors) = 0 THEN NoErr
    ELSE IF Len(errors) = 1 /\ errors[1] = err THEN err
    ELSE ErrInternal(Encode("finalization failed"), <<>>)

----------------------------------------------------------------------------
(* Frames of the call stack *)

RequireFrame(t, n) ==
    [k |-> "Require", rt |-> t, item |-> n, i |-> 0, errors |-> <<>>, err |-> NoErr]

\* item is the value whose finalizer is in flight
FinalizeFrame(j, n, errors, err) ==
    [k |-> "Finalize", rt |-> "-", item |-> n, i |-> j, errors |-> errors, err |-> err]

InProvider == stack # <<>> /\ Head(stack).k = "Require"
InFinalizer == stack # <<>> /\ Head(stack).k = "Finalize"

\* Types whose Provider invocation is in flight
InFlight == {stack[i].rt : i \in {j \in 1..Len(stack) : stack[j].k = "Require"}}

\* The observer of an operation records it in last; the other observers see
\* that something happened, not what.
Observer(o) ==
    IF o = "Finalize" THEN TrackTeardown
    ELSE IF o \in {"Fork", "Cancel"} THEN TrackFork
    ELSE TrackCalls

\* The code that made the call recorded at this step: the frame on top of the
\* stack for a call, the frame below the resumed one for a return.
Caller(ev) ==
    LET below == IF ev = "call" THEN stack ELSE Tail(stack)
    IN IF below = <<>> THEN "code" ELSE Head(below).k

Record(l) ==
    last' = IF track = Observer(l.op) THEN [l EXCEPT !.from = Caller(l.ev)] ELSE Quiet

\* Mutant of Passed: Require recovers the panic and raises an internal error.
Passed_Wrapped(fr, f) == ErrInternal(Encode(f.name), <<>>)

\* context.go:119, 138: the call of the Provider, and that of the finalizer,
\* is not deferred-recovered: a panic passes the frame as it is.
Passed(fr, f) == f

\* The panic value that leaves the outermost frame of the stack st
RECURSIVE Surfaced(_, _)
Surfaced(st, f) ==
    IF st = <<>> THEN f ELSE Surfaced(Tail(st), Passed(Head(st), f))

\* A panic unwinds every frame; the state of the context stays as it is.
Panic(l) ==
    /\ stack' = <<>>
    /\ Record([l EXCEPT !.err = Surfaced(stack, l.err)])

----------------------------------------------------------------------------
(* The family of contexts and the root cancellation scope *)

\* The parent of the first context: the root cancellation scope
Root == 0
\* The collaborators passed to NewContext
TheProvider == "provider"
TheHandler == "methodHandler"

\* The root scope: a context.Context with a deadline, not yet done
WithDeadline == [deadline |-> [at |-> 1, ok |-> TRUE], done |-> FALSE, err |-> NoErr]
Canceled == MkErr("plain", "context canceled")
DeadlineExceeded == MkErr("plain", "context deadline exceeded")

\* context.go:33-41: the context with id n made by NewContext; it registers
\* itself with StoreValue in its own, empty store.
NewContext(parent, provider, methodHandler, n) ==
    [parent |-> parent, provider |-> provider, methodHandler |-> methodHandler,
     values |-> Appended(<<>>, Slot(n, TypeContext, Val(n, TypeContext), TRUE)),
     finalized |-> FALSE]

\* Mutant of Forked: the new context starts on the slots of the one forked.
Forked_KeepsStore(c, fam, n) ==
    [NewContext(c, fam[c].provider, fam[c].methodHandler, n)
        EXCEPT !.values = values \o @]

\* context.go:43-45: the context with id n made by Fork on context c
Forked(c, fam, n) == NewContext(c, fam[c].provider, fam[c].methodHandler, n)

\* The entry of family for the context the calls are made on: its store and
\* flag are the variables values and finalized.
Parked(ctx) == [ctx EXCEPT !.values = <<>>, !.finalized = FALSE]

\* c.values and c.finalized of the context c of the family
ValuesOf(c) == IF c = self THEN values ELSE family[c].values
FinalizedOf(c) == IF c = self THEN finalized ELSE family[c].finalized

\* Mutant of Err: a context reports a cancellation of its own once finalized.
Err_Own(c) == IF FinalizedOf(c) THEN Canceled ELSE NoErr

\* context.go:187-197: Deadline, Done and Err of the context c ask the parent
RECURSIVE Deadline(_)
Deadline(c) ==
    IF family[c].parent = Root THEN scope.deadline ELSE Deadline(family[c].parent)

RECURSIVE Done(_)
Done(c) ==
    IF family[c].parent = Root THEN scope.done ELSE Done(family[c].parent)

RECURSIVE Err(_)
Err(c) ==
    IF family[c].parent = Root THEN scope.err ELSE Err(family[c].parent)

----------------------------------------------------------------------------
\* NewContext (context.go:33-41): the context registers itself.
Init ==
    /\ values = <<Slot(1, TypeContext, Val(1, TypeContext), TRUE)>>
    /\ finalized = FALSE
    /\ stack = <<>>
    /\ nextId = 2
    /\ track \in {TrackCalls, TrackTeardown, TrackFork, TrackOrder}
    /\ provCalls = [t \in Types |-> 0]
    /\ finLog = <<>>
    /\ snap = <<>>
    /\ acquired = <<>>
    /\ dropped = {}
    /\ returned = FALSE
    /\ last = Quiet
    /\ self = 1
    /\ family = [c \in {1} |-> Parked(NewContext(Root, TheProvider, TheHandler, 1))]
    /\ scope = WithDeadline

\* context.go:47-59.  Called by the request's code, by a Provider or by a
\* finalizer; the value stored is a new instance.
StoreValue(t) ==
    /\ IF IsStored(values, t)
       THEN /\ Panic(Call("StoreValue", t, {}, NoErr, "panic", NoVal, ErrStored))
            /\ UNCHANGED <<values, nextId, acquired>>
       ELSE /\ nextId <= MaxIds
            /\ values' = Appended(values, Slot(nextId, t, Val(nextId, t), TRUE))
            /\ nextId' = nextId + 1
            /\ acquired' = IF track = TrackOrder /\ ~finalized
                           THEN Acquire(acquired, values', nextId, t) ELSE acquired
            /\ Record(Call("StoreValue", t, {}, NoErr, "ok", Val(nextId, t), NoErr))
            /\ UNCHANGED stack
    /\ UNCHANGED <<finalized, track, provCalls, finLog, snap>>
    /\ UNCHANGED <<chain, dropped, returned>>

\* context.go:67-80
Invalidate(ts) ==
    /\ values' = Invalidated(values, ts)
    /\ provCalls' = IF track = TrackCalls
                    THEN [t \in Types |-> IF t \in ts THEN 0 ELSE provCalls[t]]
                    ELSE provCalls
    /\ acquired' = IF track = TrackOrder /\ ~finalized
                   THEN Released(acquired, values') ELSE acquired
    /\ dropped' = IF track = TrackOrder /\ ~finalized
                  THEN dropped \cup Dropped(values, ts) ELSE dropped
    /\ Record(Call("Invalidate", "-", ts, NoErr, "ok", NoVal, NoErr))
    /\ UNCHANGED <<finalized, stack, nextId, track, finLog, snap>>
    /\ UNCHANGED <<chain, returned>>

\* context.go:96-119, up to the call of the Provider
Require(t) ==
    /\ IF IsFinalized(finalized)
       THEN /\ Panic(Call("Require", t, {}, NoErr, "panic", NoVal, ErrFinalized))
            /\ UNCHANGED <<values, nextId, provCalls>>
       ELSE IF ~ValidShape(t)
       THEN /\ Panic(Call("Require", t, {}, NoErr, "panic", NoVal, ErrShape))
            /\ UNCHANGED <<values, nextId, provCalls>>
       ELSE IF Lookup(values, t) # 0
       THEN /\ IF ~values[Lookup(values, t)].valid
               THEN Panic(Call("Require", t, {}, NoErr, "panic", NoVal,
                               debugRecursionLoop(values)))
               ELSE /\ Record(Call("Require", t, {}, NoErr, "hit",
                                   values[Lookup(values, t)].val, NoErr))
                    /\ UNCHANGED stack
            /\ UNCHANGED <<values, nextId, provCalls>>
       ELSE /\ nextId <= MaxIds
            /\ Len(stack) < MaxDepth
            /\ values' = Appended(values, Slot(nextId, t, NoVal, FALSE))
            /\ nextId' = nextId + 1
            /\ provCalls' = IF track = TrackCalls
                            THEN [provCalls EXCEPT ![t] = @ + 1]
                            ELSE provCalls
            /\ stack' = <<RequireFrame(t, nextId)>> \o stack
            /\ Record(Call("Require", t, {}, NoErr, "provide", NoVal, NoErr))
    /\ UNCHANGED <<finalized, track, finLog, snap, acquired>>
    /\ UNCHANGED <<chain, dropped, returned>>

\* context.go:119-121: the Provider returns a new instance, Require stores it
\* through the pointer to its item and returns it.
ProvideReturn ==
    /\ InProvider
    /\ LET fr == Head(stack)
           v == Val(fr.item, fr.rt)
       IN /\ values' = Provided(values, fr.item, v)
          /\ acquired' = IF track = TrackOrder /\ ~finalized
                         THEN Acquire(acquired, values', fr.item, fr.rt) ELSE acquired
          /\ Record(Resume("Require", fr.rt, NoErr, "provided", v, NoErr, <<>>))
    /\ stack' = Tail(stack)
    /\ UNCHANGED <<finalized, nextId, track, provCalls, finLog, snap>>
    /\ UNCHANGED <<chain, dropped, returned>>

\* The Provider panics with a failure f of its own (README: NewPrivate); no
\* Require on the stack recovers it.
ProvidePanic(f) ==
    /\ InProvider
    /\ Panic(Resume("Require", Head(stack).rt, f, "panic", NoVal, f, <<>>))
    /\ UNCHANGED <<values, finalized, nextId, track, provCalls, finLog, snap, acquired>>
    /\ UNCHANGED <<chain, dropped, returned>>

\* The finalization loop from index j on, with the errors collected so far:
\* it stops in the next finalizer, ends, or panics on an index out of range.
\* ret is what the finalizer that resumes the loop has returned.
FinalizeFrom(ev, ret, j, errors, err) ==
    LET n == NextFin(values, j)
        Seen(r, v, e, errs) ==
            [Last("Finalize", ev, "-", {}, err, r, v, e, errs) EXCEPT !.ret = ret]
    IN
    IF n > 0
    THEN /\ stack' = <<FinalizeFrame(n, values[n].val.id, errors, err)>>
         /\ finLog' = IF TracksFinalizers
                      THEN Append(finLog, values[n].val.id) ELSE finLog
         /\ Record(Seen("teardown", values[n].val, NoErr, <<>>))
         /\ UNCHANGED <<values, returned>>
    ELSE IF n = 0
    THEN /\ stack' = <<>>
         /\ values' = <<>>
         /\ Record(Seen("done", NoVal, Remodel(errors, err), errors))
         /\ returned' = IF track = TrackTeardown THEN TRUE ELSE returned
         /\ UNCHANGED finLog
    ELSE /\ Panic(Seen("panic", NoVal, ErrIndex, <<>>))
         /\ UNCHANGED <<values, finLog, returned>>

\* context.go:124-143.  Called when the request ends, or again by a finalizer.
Finalize(err) ==
    /\ stack = <<>> \/ InFinalizer
    /\ IF finalized
       THEN /\ Record(Call("Finalize", "-", {}, err, "noop", NoVal,
                            FinalizedResult(err)))
            /\ UNCHANGED <<values, finalized, stack, finLog, snap, returned>>
       ELSE /\ finalized' = TRUE
            /\ snap' = IF TracksFinalizers
                       THEN FinalizeableIds(values) ELSE snap
            /\ FinalizeFrom("call", NoErr, Len(values),
                            IF err # NoErr THEN <<err>> ELSE <<>>, err)
    /\ UNCHANGED <<nextId, track, provCalls, acquired>>
    /\ UNCHANGED <<chain, dropped>>

\* context.go:138-143: the finalizer in flight returns nil or a failure of its
\* own, the loop goes on below it.
FinalizerReturn(failed) ==
    /\ InFinalizer
    /\ LET fr == Head(stack)
           e == IF failed THEN FinErr(fr.item) ELSE NoErr
           errors == IF e # NoErr THEN Append(fr.errors, e) ELSE fr.errors
       IN FinalizeFrom("return", e, fr.i - 1, errors, fr.err)
    /\ UNCHANGED <<finalized, nextId, track, provCalls, snap, acquired>>
    /\ UNCHANGED <<chain, dropped>>

Next ==
    \/ \E t \in Types : StoreValue(t)
    \/ \E ts \in {x \in SUBSET Types : Cardinality(x) <= MaxInvalidate} : Invalidate(ts)
    \/ \E t \in Types : Require(t)
    \/ ProvideReturn
    \/ \E f \in Failures : ProvidePanic(f)
    \/ \E e \in {NoErr, CallErr} : Finalize(e)
    \/ \E failed \in BOOLEAN : FinalizerReturn(failed)

\* context.go:43-45, Fork on the context the calls are made on
Fork ==
    /\ nextId <= MaxIds
    /\ family' = [c \in DOMAIN family \cup {nextId} |->
                    IF c = nextId THEN Forked(self, family, nextId) ELSE family[c]]
    /\ nextId' = nextId + 1
    /\ Record(Call("Fork", TypeContext, {}, NoErr, "ok", Val(nextId, TypeContext), NoErr))
    /\ UNCHANGED <<values, finalized, stack, track, provCalls, finLog, snap, acquired, dropped,
                   returned,
                   self, scope>>

\* The request's code turns to the context c of the family: the calls that
\* follow are made on c.
Enter(c) ==
    /\ stack = <<>>
    /\ c \in DOMAIN family /\ c # self
    /\ family' = [family EXCEPT ![self].values = values, ![self].finalized = finalized,
                                ![c] = Parked(@)]
    /\ values' = family[c].values
    /\ finalized' = family[c].finalized
    /\ self' = c
    /\ last' = Quiet
    /\ UNCHANGED <<stack, nextId, track, provCalls, finLog, snap, acquired, dropped, scope,
                   returned>>

\* The root scope is cancelled, or its deadline passes.
Cancel(e) ==
    /\ ~scope.done
    /\ e = DeadlineExceeded => scope.deadline.ok
    /\ scope' = [scope EXCEPT !.done = TRUE, !.err = e]
    /\ Record(Call("Cancel", "-", {}, e, "ok", NoVal, NoErr))
    /\ UNCHANGED <<values, finalized, stack, nextId, track, provCalls, finLog, snap,
                   acquired, dropped, returned, self, family>>

Spec == Init /\ [][Next]_vars

\* The behaviours seen by the observer of the calls, and by that of the teardown
InitCalls == Init /\ track = TrackCalls
SpecCalls == InitCalls /\ [][Next]_vars
InitTeardown == Init /\ track = TrackTeardown
SpecTeardown == InitTeardown /\ [][Next]_vars

\* The behaviours seen by the observer of the order of acquisition and release
InitOrder == Init /\ track = TrackOrder
SpecOrder == InitOrder /\ [][Next]_vars

\* The behaviours of a family of contexts, seen by the observer of Fork
NextFork ==
    \/ Next
    \/ Fork
    \/ \E c \in 1..MaxIds : Enter(c)
    \/ \E e \in {Canceled, DeadlineExceeded} : Cancel(e)

InitFork == Init /\ track = TrackFork
SpecFork == InitFork /\ [][NextFork]_vars

----------------------------------------------------------------------------
(* Vocabulary of the properties *)

\* The slot list holds a slot of type t / a valid one / a reserved one
HasSlot(vals, t) == \E i \in 1..Len(vals) : vals[i].rt = t
HasValid(vals, t) == \E i \in 1..Len(vals) : vals[i].rt = t /\ vals[i].valid
HasReserved(vals, t) == \E i \in 1..Len(vals) : vals[i].rt = t /\ ~vals[i].valid
SlotOf(vals, t) == vals[CHOOSE i \in 1..Len(vals) : vals[i].rt = t]

\* This step is a call of Require(t), of StoreValue(t), of Finalize
RequireCalled(t) == last'.op = "Require" /\ last'.ev = "call" /\ last'.rt = t
StoreValueCalled(t) == last'.op = "StoreValue" /\ last'.rt = t
FinalizeCalled == last'.op = "Finalize" /\ last'.ev = "call"

C2_StoreValue ==
    [][\A t \in Types : StoreValueCalled(t) =>
        IF HasSlot(values, t)
        THEN /\ last'.res = "panic"
             /\ last'.err = ErrStored
             /\ values' = values
        ELSE /\ last'.res = "ok"
             /\ Len(values') = Len(values) + 1
             /\ SubSeq(values', 1, Len(values)) = values
             /\ values'[Len(values')].rt = t
             /\ values'[Len(values')].val = last'.val
             /\ values'[Len(values')].valid]_vars

\* C2 witness: a StoreValue(T) made while T is being resolved (its slot is
\* reserved by Require, not yet valid) has panicked.
C2_Witness ==
    /\ last.op = "StoreValue" /\ last.res = "panic"
    /\ HasReserved(values, last.rt)

\* C3: the store never holds two slots of one type.
C3_OneSlotPerType ==
    \A i, j \in 1..Len(values) : values[i].rt = values[j].rt => i = j

\* C3 witness: a full store during teardown, after a finalizer stored a value.
C3_Witness ==
    /\ InFinalizer
    /\ Len(values) = Cardinality(Types)
    /\ Len(values) > Head(stack).i + 1

\* C4 as stated: a Require(A) made while the Provider of A is in flight (called
\* by that Provider, or by a Provider it required) panics with the recursion
\* error and invokes no Provider.
C4_AsStated ==
    [][\A t \in Types : (RequireCalled(t) /\ t \in InFlight) =>
        /\ last'.res = "panic"
        /\ last'.err.name = "recursion loop"
        /\ provCalls' = provCalls
        /\ stack' = <<>>]_vars

\* The same, as long as the slot reserved for A is still in the store.
C4_WhileReserved ==
    [][\A t \in Types : (RequireCalled(t) /\ t \in InFlight /\ HasReserved(values, t)) =>
        /\ last'.res = "panic"
        /\ last'.err.name = "recursion loop"
        /\ provCalls' = provCalls
        /\ stack' = <<>>]_vars

\* Every slot and every value was allocated before the next fresh instance.
IdsAllocated(vals, n) ==
    \A i \in 1..Len(vals) : vals[i].id < n /\ vals[i].val.id < n

Range(q) == {q[i] : i \in 1..Len(q)}
Count(q, x) == Cardinality({i \in 1..Len(q) : q[i] = x})
First(q, x) == CHOOSE i \in 1..Len(q) : q[i] = x /\ \A j \in 1..(i - 1) : q[j] # x

\* The first Finalize has returned
FinalizeDone == last.op = "Finalize" /\ last.res = "done"
\* The failures returned by finalizers among the errors it collected
FinalizerFailures == Len(last.errors) - (IF last.ein # NoErr THEN 1 ELSE 0)

\* C6: a Finalize(e) called on a context already finalized invokes no
\* finalizer, changes nothing and returns e.
C6_Idempotent ==
    [][(FinalizeCalled /\ finalized) =>
        /\ last'.res = "noop"
        /\ last'.err = last'.ein
        /\ UNCHANGED <<values, finalized, stack, nextId, finLog, snap>>]_vars

\* C6 witness: after a teardown that ran finalizers and returned another
\* error, a second Finalize(e) with a non-nil e has returned.
C6_Witness ==
    /\ last.op = "Finalize" /\ last.res = "noop" /\ last.ein = CallErr
    /\ finLog # <<>> /\ stack = <<>>

\* C7 as stated: of two Finalizeable values in the store when Finalize starts,
\* the finalizer of the one stored first is invoked only after the finalizer
\* of the one stored second.
C7_AsStated ==
    \A p, q \in 1..Len(snap) :
        (p < q /\ snap[p] \in Range(finLog)) =>
            /\ snap[q] \in Range(finLog)
            /\ First(finLog, snap[q]) < First(finLog, snap[p])

\* C8: the first Finalize(err) returns nil when err is nil and no finalizer
\* failed, err itself when err is not nil and no finalizer failed, and in every
\* other case one internal error that is none of the collected failures.
C8_Remodeling ==
    FinalizeDone =>
        /\ (FinalizerFailures = 0 /\ last.ein = NoErr) => last.err = NoErr
        /\ (FinalizerFailures = 0 /\ last.ein # NoErr) => last.err = last.ein
        /\ FinalizerFailures > 0 =>
            /\ last.err.kind = "internal"
            /\ last.err \notin Range(last.errors)

\* C8 witness: the call had no error and exactly one finalizer failed.
C8_Witness ==
    /\ FinalizeDone /\ last.ein = NoErr
    /\ Len(last.errors) = 1 /\ Len(finLog) > 1

\* C9 as stated: with two or more collected failures the first Finalize returns
\* one internal error whose details list has one entry per failure, in
\* collection order.
C9_AsStated ==
    (FinalizeDone /\ Len(last.errors) >= 2) =>
        /\ last.err.kind = "internal"
        /\ Len(last.err.details) = Len(last.errors)
        /\ last.err.details = SubErrors(last.errors)

\* C10 as stated: the finalizer of each Finalizeable value held in the store
\* when Finalize starts is never invoked twice, and has been invoked exactly
\* once when Finalize returns.
C10_AsStated ==
    /\ \A n \in Range(snap) : Count(finLog, n) <= 1
    /\ FinalizeDone => \A n \in Range(snap) : Count(finLog, n) = 1

\* C11: a finalizer only runs on a context whose finalized flag is already set,
\* and every Require on a finalized context panics with the finalized error,
\* invokes no Provider and adds no slot, whoever calls it and whatever the
\* store holds for the type.
C11_Finalized ==
    [][/\ InFinalizer' => finalized'
       /\ \A t \in Types : (RequireCalled(t) /\ finalized) =>
            /\ last'.res = "panic"
            /\ last'.err = ErrFinalized
            /\ values' = values
            /\ nextId' = nextId
            /\ provCalls' = provCalls
            /\ stack' = <<>>]_vars

\* C11 witness: a finalizer has required a type of an accepted shape whose
\* valid slot is still in the store, and the Require has panicked.
C11_Witness ==
    /\ last.op = "Require" /\ last.from = "Finalize"
    /\ last.res = "panic" /\ last.err = ErrFinalized
    /\ ValidShape(last.rt) /\ last.rt # TypeContext
    /\ HasValid(values, last.rt)

\* C12: when the Provider of T panics with a failure F, the panic that leaves
\* Require(T), and every Require it is nested in, carries exactly F.
C12_Propagated ==
    (last.op = "Require" /\ last.ev = "return" /\ last.res = "panic") =>
        /\ last.ein \in Failures
        /\ last.err = last.ein

\* C12 witness: the Provider of a type required by another Provider has
\* panicked with the unauthenticated failure.
C12_Witness ==
    /\ last.op = "Require" /\ last.ev = "return" /\ last.res = "panic"
    /\ last.from = "Require"
    /\ last.ein = ErrUnauthenticated
    /\ stack = <<>>

\* The types of the slots that are not valid, in slot order
InvalidTypes(vals) ==
    LET Reserved(v) == ~v.valid
        q == SelectSeq(vals, Reserved)
    IN [i \in 1..Len(q) |-> q[i].rt]

\* C14 as stated: the chain of the recursion diagnostic lists, in slot order,
\* the type of every slot that is not valid when Require finds the cycle.
C14_AsStated ==
    (last.op = "Require" /\ last.res = "panic" /\ last.err.name = "recursion loop") =>
        last.err.details = InvalidTypes(values)

\* C15 as stated: no two Provider invocations in flight are for the same type.
C15_AsStated ==
    \A i, j \in 1..Len(stack) :
        (stack[i].k = "Require" /\ stack[j].k = "Require" /\ stack[i].rt = stack[j].rt)
            => i = j

\* C16 as stated: every slot that is not valid is of a type whose Provider is
\* in flight, and once the failure of the Provider of T has left Require(T)
\* the store holds no slot of T that is not valid.
C16_AsStated ==
    /\ \A i \in 1..Len(values) : ~values[i].valid => values[i].rt \in InFlight
    /\ (last.op = "Require" /\ last.ev = "return" /\ last.res = "panic") =>
            ~HasReserved(values, last.rt)

\* This step resumes the finalization loop and enters the next finalizer
FinalizeResumed ==
    last'.op = "Finalize" /\ last'.ev = "return" /\ last'.res = "teardown"

\* The failures of finalizers among the errors passed to the finalizer of frame fr
Collected(fr) ==
    SubSeq(fr.errors, (IF fr.err # NoErr THEN 2 ELSE 1), Len(fr.errors))

\* The failures q come from values of the store Finalize started on, each
\* from a value stored before the one of the failure before it.
ReverseSlotOrder(q) ==
    /\ \A i \in 1..Len(q) : q[i].of \in Range(snap)
    /\ \A i, j \in 1..Len(q) :
            i < j => First(snap, q[i].of) > First(snap, q[j].of)

\* The part of C17 on what is passed: the first finalizer is passed the error
\* of the call if there is one and nothing else; each later finalizer is
\* passed what the finalizer before it was passed, followed by the failure
\* that finalizer returned unless it returned nil.
C17_Collected ==
    [][/\ (FinalizeCalled /\ last'.res = "teardown") =>
            Head(stack').errors = IF last'.ein # NoErr THEN <<last'.ein>> ELSE <<>>
       /\ FinalizeResumed =>
            /\ last'.ret \in {NoErr, FinErr(Head(stack).item)}
            /\ Head(stack').errors =
                    IF last'.ret = NoErr THEN Head(stack).errors
                    ELSE Append(Head(stack).errors, last'.ret)]_vars

\* C17 as stated: the same, and the failures passed to a finalizer are in
\* reverse slot order of the values they come from.
C17_AsStated ==
    [][/\ (FinalizeCalled /\ last'.res = "teardown") =>
            Head(stack').errors = IF last'.ein # NoErr THEN <<last'.ein>> ELSE <<>>
       /\ FinalizeResumed =>
            /\ last'.ret \in {NoErr, FinErr(Head(stack).item)}
            /\ Head(stack').errors =
                    IF last'.ret = NoErr THEN Head(stack).errors
                    ELSE Append(Head(stack).errors, last'.ret)
       /\ InFinalizer' => ReverseSlotOrder(Collected(Head(stack')))]_vars

\* C18 as stated: of two Finalizeable values in the store when Finalize
\* starts, the finalizer of the one whose slot became valid first is invoked
\* only after the finalizer of the one whose slot became valid later.
C18_AsStated ==
    \A x, y \in Range(snap) \cap Range(acquired) :
        (First(acquired, x) < First(acquired, y) /\ x \in Range(finLog)) =>
            /\ y \in Range(finLog)
            /\ First(finLog, y) < First(finLog, x)

\* C19: Invalidate(T1..Tn) removes every slot of a type among T1..Tn, valid or
\* not, keeps every other slot as it is and in the same relative order, adds
\* nothing, leaves the finalized flag, the calls in flight and the allocation
\* of instances as they are, and changes nothing when no slot has such a type.
C19_Invalidate ==
    [][last'.op = "Invalidate" =>
        LET ts == last'.rts
            kept == {j \in 1..Len(values) : values[j].rt \notin ts}
        IN /\ \A i \in 1..Len(values') : values'[i].rt \notin ts
           /\ \A j \in kept : \E i \in 1..Len(values') : values'[i] = values[j]
           /\ Len(values') = Cardinality(kept)
           /\ \A i1, i2 \in 1..Len(values') : i1 < i2 =>
                \E j1, j2 \in kept :
                    j1 < j2 /\ values[j1] = values'[i1] /\ values[j2] = values'[i2]
           /\ finalized' = finalized
           /\ stack' = stack
           /\ nextId' = nextId
           /\ kept = 1..Len(values) => values' = values]_vars

\* C19 witness: a Provider has invalidated the type it is providing together
\* with another type; its reserved slot is gone, a slot stored before it and a
\* slot stored after it are still there.
C19_Witness ==
    /\ last.op = "Invalidate" /\ InProvider
    /\ Head(stack).rt \in last.rts /\ ~HasSlot(values, Head(stack).rt)
    /\ Cardinality(last.rts) = 2
    /\ Len(values) = 2 /\ values[1].id < Head(stack).item /\ values[2].id > Head(stack).item

\* C13: Fork on a context P adds to the family one context C that is not
\* finalized, has P as parent and the Provider and method handler of P, and
\* whose store is one valid slot of the context type holding C, with none of
\* the slots of P; Fork leaves the store and the flag of P as they are; and no
\* step of any operation changes the store or the flag of a context other
\* than the one it is called on, nor removes a context from the family.
C13_Fork ==
    [][/\ last'.op = "Fork" =>
            LET n == last'.val.id
                C == family'[n]
            IN /\ n \notin DOMAIN family
               /\ DOMAIN family' = DOMAIN family \cup {n}
               /\ C.parent = self
               /\ C.provider = family[self].provider
               /\ C.methodHandler = family[self].methodHandler
               /\ ~C.finalized
               /\ Len(C.values) = 1
               /\ C.values[1].rt = TypeContext /\ C.values[1].valid
               /\ C.values[1].val = Val(n, TypeContext)
               /\ \A i \in 1..Len(values) : values[i] \notin Range(C.values)
               /\ values' = values
               /\ finalized' = finalized
               /\ self' = self
       /\ \A c \in DOMAIN family : c # self =>
            /\ c \in DOMAIN family'
            /\ ValuesOf(c)' = ValuesOf(c)
            /\ FinalizedOf(c)' = FinalizedOf(c)]_vars

\* C13 witness: after a value was stored in the first context, a context
\* forked from it was finalized and its store emptied; the first context is
\* not finalized and still holds its registration and its value.
C13_Witness ==
    /\ self # 1 /\ family[self].parent = 1
    /\ finalized /\ values = <<>> /\ stack = <<>>
    /\ ~family[1].finalized
    /\ Len(family[1].values) = 2
    /\ family[1].values[1] = Slot(1, TypeContext, Val(1, TypeContext), TRUE)
    /\ family[1].values[2].id < self

\* C20: in every state each context of the family reports the deadline, the
\* done signal and the cancellation error of its parent, which are those of
\* the root scope; and no step other than the cancellation of the root scope
\* changes the root scope or what a context reports.
C20_Delegation ==
    [][/\ \A c \in DOMAIN family' : \A p \in DOMAIN family' \cup {Root} :
            p = family'[c].parent =>
               /\ Deadline(c)' = (IF p = Root THEN scope'.deadline ELSE Deadline(p)')
               /\ Done(c)' = (IF p = Root THEN scope'.done ELSE Done(p)')
               /\ Err(c)' = (IF p = Root THEN scope'.err ELSE Err(p)')
               /\ Deadline(c)' = scope'.deadline
               /\ Done(c)' = scope'.done
               /\ Err(c)' = scope'.err
       /\ last'.op # "Cancel" =>
            /\ scope' = scope
            /\ \A c \in DOMAIN family :
                    /\ Deadline(c)' = Deadline(c)
                    /\ Done(c)' = Done(c)
                    /\ Err(c)' = Err(c)]_vars

\* C20 witness: the root scope was cancelled after a context forked from a
\* forked context was finalized; that context reports the cancellation.
C20_Witness ==
    /\ last.op = "Cancel" /\ scope.err = Canceled
    /\ self # 1 /\ family[self].parent # Root /\ family[self].parent # 1
    /\ finalized
    /\ Done(self) /\ Err(self) = Canceled /\ Deadline(self) = scope.deadline

\* The part of C21 on the flag: once set, finalized is never reset.
C21_Monotonic ==
    [][finalized => finalized']_vars

\* C21 as stated: the finalized flag is never reset, and once the first
\* Finalize has returned the store is empty in every state.
C21_AsStated ==
    [][/\ finalized => finalized'
       /\ returned' => values' = <<>>]_vars

====
